---- MODULE Spec2Model ----
(***************************************************************************)
(* State-machine model of serial_keyboard.c (CW Hotline to Keyboard): the  *)
(* polling loop of main(), the line protocol parser (handleLine and        *)
(* processCommandWithComma), the adaptive dot/dash classifier, the Morse   *)
(* tree accumulator and the decoded-text buffer.                           *)
(*                                                                         *)
(* C strings are sequences of one-character strings, indexed from 1; a     *)
(* char* is an index into the sequence and NULL is index 0.  '\0' in the   *)
(* Morse tree is the empty string NUL.  Times are milliseconds.            *)
(***************************************************************************)
EXTENDS Integers, Sequences, FiniteSets, TLC

VARIABLES
    lowercaseMode,     \* --lowercase
    keyboardMode,      \* -k
    quietMode,         \* -q
    debugMode,         \* -r
    dotTiming,         \* learned dot length, -1 = unlearned
    dashTiming,        \* learned dash length, -1 = unlearned
    morseTreePos,      \* current index in morseTree, 0 = root
    elementCount,      \* elements accumulated for the current character
    decodedBuffer,     \* decodedBuffer[0 .. decodedPos-1]; decodedPos is its length
    pendingWordGap,    \* 0 / 1
    lastActivityTime,  \* clock value at the last read that returned bytes, 0 = none yet
    lineBuf,           \* lineBuf[0 .. linePos-1]; linePos is its length
    now,               \* the clock read by getCurrentTimeMs()
    running,           \* TRUE while main() is inside its while(1) loop
    lastRecordTime,    \* history: clock value at the last iteration that parsed a record
    path,              \* history: symbols passed to addDit/addDah since the last completeCharacter
    op,                \* history: the operation that produced this state
    recs,              \* history: records parsed during the last operation
    pressed,           \* history: press_key(isDash) calls of the last operation
    appended,          \* history: characters addDecodedChar handled during the last operation
    printed            \* history: text flushDecoded printed during the last operation

vars == << lowercaseMode, keyboardMode, quietMode, debugMode, dotTiming, dashTiming,
           morseTreePos, elementCount, decodedBuffer, pendingWordGap, lastActivityTime,
           lineBuf, now, running, lastRecordTime, path, op, recs, pressed, appended,
           printed >>

config == << lowercaseMode, keyboardMode, quietMode, debugMode >>

(***************************************************************************)
(* Program constants.                                                      *)
(***************************************************************************)
TIMING_TOLERANCE == 50

MIN_PULSE_LENGTH == 30

CHARACTER_TIMEOUT_MS == 1500

WORD_GAP_TIMEOUT_MS == 500

LINEBUF_SIZE == 4096

DECODED_SIZE == 256

FLUSH_AT == 64

TREE_SIZE == 128

MAX_PARENT == 63

MARKER_REACH == 20

FIELD_DIGITS == 31

NUL == ""

(***************************************************************************)
(* The Morse tree.  The C initializer lists 69 values positionally         *)
(* (indices 0..68) and then sets ten indices by designator; a designator   *)
(* overrides, and every index not named is '\0'.                           *)
(***************************************************************************)
morseTreePositional ==
    << NUL, "E", "T", "I", "A", "N", "M", "S", "U", "R", "W", "D", "K", "G", "O",
       "H", "V", "F", NUL, "L", "\n", "P", "J", "B", "X", "C", "Y", "Z", "Q", NUL, NUL,
       "5", "4", NUL, "3", NUL, NUL, NUL, "2", NUL, NUL, "+", NUL, NUL, NUL, NUL, "1",
       "6", "=", "/", NUL, NUL, NUL, "(", NUL, "7", NUL, NUL, NUL, "8", NUL, "9", "0",
       ".", ",", "?", "'", "!", ":" >>

morseTreeDesignated ==
    (75 :> "?") @@ (84 :> ".") @@ (93 :> "'") @@ (106 :> "!") @@ (114 :> ",") @@
    (119 :> ":") @@ (70 :> ";") @@ (105 :> ";") @@ (97 :> "-") @@ (96 :> "-")

morseTree ==
    [i \in 0 .. TREE_SIZE - 1 |->
        IF i \in DOMAIN morseTreeDesignated THEN morseTreeDesignated[i]
        ELSE IF i < Len(morseTreePositional) THEN morseTreePositional[i + 1]
        ELSE NUL]

(***************************************************************************)
(* Character classes of <ctype.h> and the case conversion of               *)
(* addDecodedChar.                                                         *)
(***************************************************************************)
UpperLetters ==
    << "A", "B", "C", "D", "E", "F", "G", "H", "I", "J", "K", "L", "M",
       "N", "O", "P", "Q", "R", "S", "T", "U", "V", "W", "X", "Y", "Z" >>

LowerLetters ==
    << "a", "b", "c", "d", "e", "f", "g", "h", "i", "j", "k", "l", "m",
       "n", "o", "p", "q", "r", "s", "t", "u", "v", "w", "x", "y", "z" >>

Digits == << "0", "1", "2", "3", "4", "5", "6", "7", "8", "9" >>

IndexIn(seq, c) == CHOOSE i \in 1 .. Len(seq) : seq[i] = c

IsUpper(c) == \E i \in 1 .. Len(UpperLetters) : UpperLetters[i] = c

isdigit(c) == \E i \in 1 .. Len(Digits) : Digits[i] = c

DigitValue(c) == IndexIn(Digits, c) - 1

CaseConvert(c) ==
    IF IsUpper(c) /\ lowercaseMode THEN LowerLetters[IndexIn(UpperLetters, c)] ELSE c

(***************************************************************************)
(* The decoder state handled by the functions below, as one record.        *)
(***************************************************************************)
Decoder ==
    [ dotTiming |-> dotTiming, dashTiming |-> dashTiming,
      morseTreePos |-> morseTreePos, elementCount |-> elementCount,
      decodedBuffer |-> decodedBuffer, pendingWordGap |-> pendingWordGap,
      path |-> path, recs |-> << >>, pressed |-> << >>, appended |-> << >>,
      printed |-> << >> ]

Commit(s) ==
    /\ dotTiming' = s.dotTiming
    /\ dashTiming' = s.dashTiming
    /\ morseTreePos' = s.morseTreePos
    /\ elementCount' = s.elementCount
    /\ decodedBuffer' = s.decodedBuffer
    /\ pendingWordGap' = s.pendingWordGap
    /\ path' = s.path
    /\ recs' = s.recs
    /\ pressed' = s.pressed
    /\ appended' = s.appended
    /\ printed' = s.printed

(***************************************************************************)
(* Output sink.                                                            *)
(***************************************************************************)
\* variant: the terminator is written over the last character
flushDecodedShort(s) ==
    IF Len(s.decodedBuffer) > 0
    THEN [s EXCEPT !.printed = IF quietMode THEN @
                                ELSE @ \o SubSeq(s.decodedBuffer, 1, Len(s.decodedBuffer) - 1),
                   !.decodedBuffer = << >>]
    ELSE s

flushDecoded(s) ==
    IF Len(s.decodedBuffer) > 0
    THEN [s EXCEPT !.printed = IF quietMode THEN @ ELSE @ \o s.decodedBuffer,
                   !.decodedBuffer = << >>]
    ELSE s

\* variant: the flush one character later
NeedsFlushLate(len, c) == len > FLUSH_AT \/ c = " " \/ c = "\n"

NeedsFlush(len, c) == len >= FLUSH_AT \/ c = " " \/ c = "\n"

addDecodedChar(s, ch) ==
    LET c == CaseConvert(ch)
        s1 == [s EXCEPT !.appended = Append(@, c)]
        s2 == IF Len(s1.decodedBuffer) < DECODED_SIZE - 1
              THEN [s1 EXCEPT !.decodedBuffer = Append(@, c)]
              ELSE s1
    IN  IF NeedsFlush(Len(s2.decodedBuffer), c) THEN flushDecoded(s2) ELSE s2

(***************************************************************************)
(* Sequence accumulator.                                                   *)
(***************************************************************************)
TreeLookup(pos) == morseTree[pos]

\* variant: the position and the count are not reset
completeCharacterNoReset(s) ==
    LET c == TreeLookup(s.morseTreePos)
    IN  IF s.elementCount > 0 /\ s.morseTreePos < TREE_SIZE /\ c # NUL
        THEN [addDecodedChar(s, c) EXCEPT !.pendingWordGap = 1, !.path = << >>]
        ELSE [s EXCEPT !.path = << >>]

completeCharacter(s) ==
    LET c  == TreeLookup(s.morseTreePos)
        s1 == IF s.elementCount > 0 /\ s.morseTreePos < TREE_SIZE /\ c # NUL
              THEN [addDecodedChar(s, c) EXCEPT !.pendingWordGap = 1]
              ELSE s
    IN  [s1 EXCEPT !.morseTreePos = 0, !.elementCount = 0, !.path = << >>]

LeftChild(pos) == pos * 2 + 1

\* variant: the right child one slot too far
RightChildOff(pos) == pos * 2 + 3

RightChild(pos) == pos * 2 + 2

\* variant: one level deeper
CanDescendDeeper(pos) == pos <= MAX_PARENT

CanDescend(pos) == pos < MAX_PARENT

\* variant: a dropped symbol is counted all the same
addDitCounted(s) ==
    LET s1 == [s EXCEPT !.path = Append(@, "dit"), !.elementCount = @ + 1]
    IN  IF CanDescend(s.morseTreePos)
        THEN [s1 EXCEPT !.morseTreePos = LeftChild(@)]
        ELSE s1

addDit(s) ==
    LET s1 == [s EXCEPT !.path = Append(@, "dit")]
    IN  IF CanDescend(s.morseTreePos)
        THEN [s1 EXCEPT !.morseTreePos = LeftChild(@), !.elementCount = @ + 1]
        ELSE s1

addDah(s) ==
    LET s1 == [s EXCEPT !.path = Append(@, "dah")]
    IN  IF CanDescend(s.morseTreePos)
        THEN [s1 EXCEPT !.morseTreePos = RightChild(@), !.elementCount = @ + 1]
        ELSE s1

press_key(s, isDash) == [s EXCEPT !.pressed = Append(@, IF isDash = 1 THEN "dah" ELSE "dit")]

Dit(s) == press_key(addDit(s), 0)

Dah(s) == press_key(addDah(s), 1)

\* variant: a timeout of 2500 ms
TimedOutLate(elapsed) == elapsed > 2500

TimedOut(elapsed) == elapsed > CHARACTER_TIMEOUT_MS

\* variant: the timeout completes the character and leaves it in the buffer
checkTimeoutNoFlush(s, last, clock) ==
    IF last = 0 THEN s
    ELSE
        LET elapsed == clock - last
            s1 == IF s.elementCount > 0 /\ TimedOut(elapsed) THEN completeCharacter(s) ELSE s
        IN  IF s1.pendingWordGap = 1 /\ elapsed > WORD_GAP_TIMEOUT_MS /\ s1.elementCount = 0
            THEN [s1 EXCEPT !.pendingWordGap = 0]
            ELSE s1

\* variant: the word-gap timeout adds the space
checkTimeoutWordSpace(s, last, clock) ==
    IF last = 0 THEN s
    ELSE
        LET elapsed == clock - last
            s1 == IF s.elementCount > 0 /\ TimedOut(elapsed)
                  THEN flushDecoded(completeCharacter(s))
                  ELSE s
        IN  IF s1.pendingWordGap = 1 /\ elapsed > WORD_GAP_TIMEOUT_MS /\ s1.elementCount = 0
            THEN addDecodedChar([s1 EXCEPT !.pendingWordGap = 0], " ")
            ELSE s1

checkTimeout(s, last, clock) ==
    IF last = 0 THEN s
    ELSE
        LET elapsed == clock - last
            s1 == IF s.elementCount > 0 /\ TimedOut(elapsed)
                  THEN flushDecoded(completeCharacter(s))
                  ELSE s
        IN  IF s1.pendingWordGap = 1 /\ elapsed > WORD_GAP_TIMEOUT_MS /\ s1.elementCount = 0
            THEN [s1 EXCEPT !.pendingWordGap = 0]
            ELSE s1

(***************************************************************************)
(* Pulse classifier.  dotTiming * 2.5 and dotTiming * 0.6 are double        *)
(* products compared with an int; for the integers involved the comparison *)
(* is the exact rational one, written here without fractions.              *)
(***************************************************************************)
Abs(x) == IF x < 0 THEN -x ELSE x

\* variant: half the tolerance
isCloseHalf(val, target) == Abs(val - target) <= 25

isClose(val, target) == Abs(val - target) <= TIMING_TOLERANCE

\* variant: the glitch filter with a floor of 10 ms
IsNoiseFloor10(charLength) == charLength < 10

\* variant: no pulse is too short
IsNoiseNever(charLength) == charLength < 1

IsNoise(charLength) == charLength < MIN_PULSE_LENGTH

IsCharGap(dot, pauseTime) == dot > 0 /\ 2 * pauseTime > 5 * dot

IsWordGap(dot, pauseTime) == pauseTime > dot * 6

\* variant: below half of dotTiming
IsShortPulseHalf(dot, charLength) == 2 * charLength < dot /\ charLength > MIN_PULSE_LENGTH

IsShortPulse(dot, charLength) == 5 * charLength < 3 * dot /\ charLength > MIN_PULSE_LENGTH

IsStaleDash(dot, dash, charLength) ==
    dash > dot * 6 /\ charLength > dot * 2 /\ charLength < dash

\* variant: the mean of the timing and the reading
NudgeHalf(timing, charLength) == (timing + charLength) \div 2

Nudge(timing, charLength) == (timing * 3 + charLength) \div 4

\* variant: equal distances count as nearer to the dot
NearerDotOrEqual(dot, dash, charLength) == Abs(charLength - dot) <= Abs(charLength - dash)

NearerDot(dot, dash, charLength) == Abs(charLength - dot) < Abs(charLength - dash)

\* variant: the word space is appended before the pending character is completed
BoundarySpaceFirst(s, pauseTime) ==
    IF IsCharGap(s.dotTiming, pauseTime)
    THEN LET s1 == IF IsWordGap(s.dotTiming, pauseTime) THEN addDecodedChar(s, " ") ELSE s
         IN  completeCharacter(s1)
    ELSE s

\* lines 679-688: character / word boundary announced by the pause
Boundary(s, pauseTime) ==
    IF IsCharGap(s.dotTiming, pauseTime)
    THEN LET s1 == completeCharacter(s)
         IN  IF IsWordGap(s.dotTiming, pauseTime) THEN addDecodedChar(s1, " ") ELSE s1
    ELSE s

\* variant: the second value always becomes dashTiming
LearnSecondNoSwap(s, charLength) ==
    IF isClose(charLength, s.dotTiming) THEN Dit(s)
    ELSE
        LET s1 == [s EXCEPT !.dashTiming = charLength]
        IN  IF charLength = s1.dotTiming THEN Dit(s1) ELSE Dah(s1)

\* lines 690-711: dashTiming not learned yet
LearnSecond(s, charLength) ==
    IF isClose(charLength, s.dotTiming) THEN Dit(s)
    ELSE
        LET s1 == IF charLength > s.dotTiming
                  THEN [s EXCEPT !.dashTiming = charLength]
                  ELSE [s EXCEPT !.dashTiming = s.dotTiming, !.dotTiming = charLength]
        IN  IF charLength = s1.dotTiming THEN Dit(s1) ELSE Dah(s1)

\* variant: the dash window is tested before the dot window
SteadyDashFirst(s, charLength) ==
    IF isClose(charLength, s.dashTiming)
    THEN [Dah(s) EXCEPT !.dashTiming = Nudge(s.dashTiming, charLength)]
    ELSE IF isClose(charLength, s.dotTiming)
    THEN [Dit(s) EXCEPT !.dotTiming = Nudge(s.dotTiming, charLength)]
    ELSE IF NearerDot(s.dotTiming, s.dashTiming, charLength) THEN Dit(s)
    ELSE Dah(s)

\* lines 731-750: both timings learned, no correction applies
Steady(s, charLength) ==
    IF isClose(charLength, s.dotTiming)
    THEN [Dit(s) EXCEPT !.dotTiming = Nudge(s.dotTiming, charLength)]
    ELSE IF isClose(charLength, s.dashTiming)
    THEN [Dah(s) EXCEPT !.dashTiming = Nudge(s.dashTiming, charLength)]
    ELSE IF NearerDot(s.dotTiming, s.dashTiming, charLength) THEN Dit(s)
    ELSE Dah(s)

\* variant: the first pulse is taken for both timings
ColdStartBoth(s, charLength) ==
    Dit([s EXCEPT !.dotTiming = charLength, !.dashTiming = charLength])

\* lines 668-674: auto-learn, nothing learned yet
ColdStart(s, charLength) == Dit([s EXCEPT !.dotTiming = charLength])

\* lines 659-752: processCommandWithComma from the glitch filter on
\* variant: the length is classified first and the pause looked at afterwards
ClassifyThenBoundary(s, pauseTime, charLength) ==
    IF IsNoise(charLength) THEN s
    ELSE IF s.dotTiming = -1 THEN ColdStart(s, charLength)
    ELSE
        LET s1 == IF s.dashTiming = -1 THEN LearnSecond(s, charLength)
                  ELSE IF IsShortPulse(s.dotTiming, charLength)
                  THEN Dit([s EXCEPT !.dashTiming = s.dotTiming, !.dotTiming = charLength])
                  ELSE IF IsStaleDash(s.dotTiming, s.dashTiming, charLength)
                  THEN Dah([s EXCEPT !.dashTiming = charLength])
                  ELSE Steady(s, charLength)
        IN  Boundary(s1, pauseTime)

\* variant: the pause of a noise pulse is looked at before the pulse is dropped
ClassifyNoiseLate(s, pauseTime, charLength) ==
    IF s.dotTiming = -1
    THEN IF IsNoise(charLength) THEN s ELSE ColdStart(s, charLength)
    ELSE
        LET s1 == Boundary(s, pauseTime)
        IN  IF IsNoise(charLength) THEN s1
            ELSE IF s1.dashTiming = -1 THEN LearnSecond(s1, charLength)
            ELSE IF IsShortPulse(s1.dotTiming, charLength)
            THEN Dit([s1 EXCEPT !.dashTiming = s1.dotTiming, !.dotTiming = charLength])
            ELSE IF IsStaleDash(s1.dotTiming, s1.dashTiming, charLength)
            THEN Dah([s1 EXCEPT !.dashTiming = charLength])
            ELSE Steady(s1, charLength)

Classify(s, pauseTime, charLength) ==
    IF IsNoise(charLength) THEN s
    ELSE IF s.dotTiming = -1 THEN ColdStart(s, charLength)
    ELSE
        LET s1 == Boundary(s, pauseTime)
        IN  IF s1.dashTiming = -1 THEN LearnSecond(s1, charLength)
            ELSE IF IsShortPulse(s1.dotTiming, charLength)
            THEN Dit([s1 EXCEPT !.dashTiming = s1.dotTiming, !.dotTiming = charLength])
            ELSE IF IsStaleDash(s1.dotTiming, s1.dashTiming, charLength)
            THEN Dah([s1 EXCEPT !.dashTiming = charLength])
            ELSE Steady(s1, charLength)

(***************************************************************************)
(* Line protocol parser.                                                   *)
(***************************************************************************)
Min(S) == CHOOSE x \in S : \A y \in S : x <= y

\* strchr(line + from - 1, c): index of the first c at or after from, 0 = NULL
strchr(line, from, c) ==
    LET hits == {i \in from .. Len(line) : line[i] = c}
    IN  IF hits = {} THEN 0 ELSE Min(hits)

\* strpbrk(line + from - 1, "Ss")
strpbrkSs(line, from) ==
    LET hits == {i \in from .. Len(line) : line[i] \in {"S", "s"}}
    IN  IF hits = {} THEN 0 ELSE Min(hits)

\* isdigit(line[i]); the terminating '\0' at Len(line) + 1 is no digit
DigitAt(line, i) == i >= 1 /\ i <= Len(line) /\ isdigit(line[i])

\* number of characters the copy loops of lines 636 and 650 take from index from
DigitRun(line, from) ==
    LET stops == {k \in 0 .. FIELD_DIGITS : k = FIELD_DIGITS \/ ~DigitAt(line, from + k)}
    IN  Min(stops)

\* atoi over the digits copied into pauseStr / lengthStr; the fields of the inputs
\* used here have at most four digits, far from the range of int
RECURSIVE atoiFrom(_, _, _, _)
atoiFrom(line, from, count, acc) ==
    IF count = 0 THEN acc
    ELSE atoiFrom(line, from + 1, count - 1, acc * 10 + DigitValue(line[from]))

atoi(line, from, count) == atoiFrom(line, from, count, 0)

\* processCommandWithComma; .end = 0 stands for a NULL return
processCommandWithComma(s, line, firstComma) ==
    LET pauseTime   == atoi(line, firstComma + 1, DigitRun(line, firstComma + 1))
        secondComma == strchr(line, firstComma + 1, ",")
        lengthRun   == DigitRun(line, secondComma + 1)
        endOfDigits == IF lengthRun = 0 THEN secondComma + 1 ELSE secondComma + lengthRun
        charLength  == atoi(line, secondComma + 1, lengthRun)
    IN  IF secondComma = 0 THEN [st |-> s, end |-> 0]
        ELSE IF charLength = 0 THEN [st |-> s, end |-> 0]
        ELSE [st  |-> Classify([s EXCEPT !.recs =
                                   Append(@, [pause |-> pauseTime, length |-> charLength])],
                               pauseTime, charLength),
              end |-> endOfDigits]

\* variant: after a success the scan resumes one character past the marker
RECURSIVE scanLineFromMarker(_, _, _)
scanLineFromMarker(s, line, cursor) ==
    LET marker == strpbrkSs(line, cursor)
        comma  == strchr(line, marker, ",")
        second == strchr(line, comma + 1, ",")
        r      == processCommandWithComma(s, line, comma)
    IN  IF marker = 0 THEN s
        ELSE IF comma = 0 THEN s
        ELSE IF comma - marker > MARKER_REACH THEN scanLineFromMarker(s, line, marker + 1)
        ELSE IF DigitAt(line, comma + 1) /\ second # 0 /\ DigitAt(line, second + 1) /\ r.end # 0
        THEN scanLineFromMarker(r.st, line, marker + 1)
        ELSE scanLineFromMarker(s, line, marker + 1)

RECURSIVE scanLine(_, _, _)
scanLine(s, line, cursor) ==
    LET marker == strpbrkSs(line, cursor)
        comma  == strchr(line, marker, ",")
        second == strchr(line, comma + 1, ",")
        r      == processCommandWithComma(s, line, comma)
    IN  IF marker = 0 THEN s
        ELSE IF comma = 0 THEN s
        ELSE IF comma - marker > MARKER_REACH THEN scanLine(s, line, marker + 1)
        ELSE IF DigitAt(line, comma + 1) /\ second # 0 /\ DigitAt(line, second + 1) /\ r.end # 0
        THEN scanLine(r.st, line, r.end)
        ELSE scanLine(s, line, marker + 1)

handleLine(s, line) == IF Len(line) = 0 THEN s ELSE scanLine(s, line, 1)

\* variant: a rejected marker leaves the cursor on the marker
ScanStepStuck(s, line, cursor) ==
    LET marker == strpbrkSs(line, cursor)
        comma  == strchr(line, marker, ",")
        second == strchr(line, comma + 1, ",")
        r      == processCommandWithComma(s, line, comma)
    IN  IF marker = 0 THEN [st |-> s, cursor |-> 0]
        ELSE IF comma = 0 THEN [st |-> s, cursor |-> 0]
        ELSE IF comma - marker > MARKER_REACH THEN [st |-> s, cursor |-> marker + 1]
        ELSE IF DigitAt(line, comma + 1) /\ second # 0 /\ DigitAt(line, second + 1) /\ r.end # 0
        THEN [st |-> r.st, cursor |-> r.end]
        ELSE [st |-> s, cursor |-> marker]

\* one iteration of the while loop of lines 762-786, entered with the cursor at
\* index cursor; .cursor is the cursor for the next iteration, 0 when the loop ends
ScanStep(s, line, cursor) ==
    LET marker == strpbrkSs(line, cursor)
        comma  == strchr(line, marker, ",")
        second == strchr(line, comma + 1, ",")
        r      == processCommandWithComma(s, line, comma)
    IN  IF marker = 0 THEN [st |-> s, cursor |-> 0]
        ELSE IF comma = 0 THEN [st |-> s, cursor |-> 0]
        ELSE IF comma - marker > MARKER_REACH THEN [st |-> s, cursor |-> marker + 1]
        ELSE IF DigitAt(line, comma + 1) /\ second # 0 /\ DigitAt(line, second + 1) /\ r.end # 0
        THEN [st |-> r.st, cursor |-> r.end]
        ELSE [st |-> s, cursor |-> marker + 1]

\* the loop run for at most fuel iterations: the cursors its iterations start with,
\* whether it ended, and the decoder state it leaves
RECURSIVE ScanRun(_, _, _, _)
ScanRun(s, line, cursor, fuel) ==
    LET r == ScanStep(s, line, cursor)
    IN  IF fuel = 0 THEN [st |-> s, cursors |-> << >>, ended |-> FALSE]
        ELSE IF r.cursor = 0 THEN [st |-> r.st, cursors |-> << cursor >>, ended |-> TRUE]
        ELSE [ScanRun(r.st, line, r.cursor, fuel - 1) EXCEPT !.cursors = << cursor >> \o @]

(***************************************************************************)
(* main(): the line buffer.                                                *)
(***************************************************************************)
IsLineEnd(c) == c = "\n" \/ c = "\r"

\* variant: a read that fills the buffer to its capacity is kept
appendToLineBufFull(buf, chunk) ==
    IF Len(buf) + Len(chunk) <= LINEBUF_SIZE THEN buf \o chunk ELSE << >>

\* lines 983-989
appendToLineBuf(buf, chunk) ==
    IF Len(buf) + Len(chunk) < LINEBUF_SIZE THEN buf \o chunk ELSE << >>

\* lines 992-1017; the result is the decoder state and what stays in lineBuf
RECURSIVE scanForLines(_, _)
scanForLines(s, buf) ==
    LET ends  == {k \in 1 .. Len(buf) : IsLineEnd(buf[k])}
        found == Min(ends)
        rest  == SubSeq(buf, found + 1, Len(buf))
        left  == IF Len(rest) > 0 /\ IsLineEnd(rest[1]) THEN Tail(rest) ELSE rest
    IN  IF ends = {} THEN [st |-> s, buf |-> buf]
        ELSE scanForLines(handleLine(s, SubSeq(buf, 1, found - 1)), left)

(***************************************************************************)
(* Bounds and inputs of the model.                                         *)
(***************************************************************************)
StartMs == 500     \* clock value when the loop starts

TickMs == 500      \* time one loop iteration takes

MaxDataTicks == 3  \* reads return bytes only during the first MaxDataTicks iterations

DataHorizon == StartMs + MaxDataTicks * TickMs

\* the clock runs on long enough for the inactivity timeout to expire after the last read
MaxNow == DataHorizon + CHARACTER_TIMEOUT_MS + TickMs

\* command lines as << lowercaseMode, keyboardMode, quietMode, debugMode >>:
\* no option, -k --lowercase, -q, -r
Configs ==
    { << FALSE, FALSE, FALSE, FALSE >>, << TRUE, TRUE, FALSE, FALSE >>,
      << FALSE, FALSE, TRUE, FALSE >>, << FALSE, FALSE, FALSE, TRUE >> }

RECURSIVE Decimal(_)
Decimal(n) == IF n < 10 THEN << Digits[n + 1] >> ELSE Append(Decimal(n \div 10), Digits[(n % 10) + 1])

\* the device's report of one pulse, as a line of text
RecordLine(pauseMs, lengthMs) ==
    << "S", "," >> \o Decimal(pauseMs) \o << "," >> \o Decimal(lengthMs) \o << "\n" >>

Pauses == {0, 240, 2000}

Lengths == {20, 40, 85, 91, 300}

Chunks ==
    {RecordLine(p, l) : p \in Pauses, l \in Lengths} \cup {<< "x", "y" >>}

(***************************************************************************)
(* The program: main() from the start of its loop.                         *)
(***************************************************************************)
InitDecoder ==
    /\ dotTiming = -1
    /\ dashTiming = -1
    /\ morseTreePos = 0
    /\ elementCount = 0
    /\ decodedBuffer = << >>
    /\ pendingWordGap = 0
    /\ lastActivityTime = 0
    /\ lineBuf = << >>
    /\ now = StartMs
    /\ running = TRUE
    /\ lastRecordTime = 0
    /\ path = << >>
    /\ op = "init"
    /\ recs = << >>
    /\ pressed = << >>
    /\ appended = << >>
    /\ printed = << >>

Init ==
    /\ \E c \in Configs :
          /\ lowercaseMode = c[1]
          /\ keyboardMode = c[2]
          /\ quietMode = c[3]
          /\ debugMode = c[4]
    /\ InitDecoder

\* variant: the iteration that read bytes starts with the inactivity check
ReadBytesChecked(chunk) ==
    /\ running
    /\ now' = now + TickMs
    /\ lastActivityTime' = now'
    /\ op' = "read"
    /\ IF debugMode
       THEN /\ Commit(Decoder)
            /\ UNCHANGED << lineBuf, lastRecordTime >>
       ELSE LET r == scanForLines(checkTimeout(Decoder, lastActivityTime, now'),
                                  appendToLineBuf(lineBuf, chunk))
            IN  /\ Commit(r.st)
                /\ lineBuf' = r.buf
                /\ lastRecordTime' = IF r.st.recs # << >> THEN now' ELSE lastRecordTime
    /\ UNCHANGED << config, running >>

\* lines 973-1017: os_serial_read returned n = Len(chunk) > 0 bytes
ReadBytes(chunk) ==
    /\ running
    /\ now' = now + TickMs
    /\ lastActivityTime' = now'
    /\ op' = "read"
    /\ IF debugMode
       THEN /\ Commit(Decoder)
            /\ UNCHANGED << lineBuf, lastRecordTime >>
       ELSE LET r == scanForLines(Decoder, appendToLineBuf(lineBuf, chunk))
            IN  /\ Commit(r.st)
                /\ lineBuf' = r.buf
                /\ lastRecordTime' = IF r.st.recs # << >> THEN now' ELSE lastRecordTime
    /\ UNCHANGED << config, running >>

\* lines 1032-1038: os_serial_read returned 0, or -1 with EAGAIN
ReadNothing ==
    /\ running
    /\ now + TickMs <= MaxNow
    /\ now' = now + TickMs
    /\ op' = "idle"
    /\ Commit(checkTimeout(Decoder, lastActivityTime, now'))
    /\ UNCHANGED << config, lastActivityTime, lineBuf, running, lastRecordTime >>

\* lines 1018-1031 and 1041-1046: the read failed, the loop breaks and main() shuts down
Disconnect ==
    /\ running
    /\ running' = FALSE
    /\ op' = "disconnect"
    /\ Commit(flushDecoded(Decoder))
    /\ UNCHANGED << config, lastActivityTime, lineBuf, now, lastRecordTime >>

Next ==
    \/ \E chunk \in Chunks : now + TickMs <= DataHorizon /\ ReadBytes(chunk)
    \/ ReadNothing
    \/ Disconnect

Spec == Init /\ [][Next]_vars

(***************************************************************************)
(* The loop while the port stays open.  The loop never blocks: a read      *)
(* that finds nothing returns (VMIN = 0, VTIME = 1), so the iteration that *)
(* reads nothing is taken again and again.                                 *)
(***************************************************************************)
NextOpen ==
    \/ \E chunk \in Chunks : now + TickMs <= DataHorizon /\ ReadBytes(chunk)
    \/ ReadNothing

SpecLive == Init /\ [][NextOpen]_vars /\ WF_vars(ReadNothing)

(***************************************************************************)
(* An operator whose dots get longer: pulses sent without pauses.          *)
(***************************************************************************)
MaxDriftTicks == 8

DriftHorizon == StartMs + MaxDriftTicks * TickMs

DriftLengths == {100, 150, 151, 175}

DriftChunks == {RecordLine(0, l) : l \in DriftLengths}

NextDrift == \E chunk \in DriftChunks : now + TickMs <= DriftHorizon /\ ReadBytes(chunk)

SpecDrift == Init /\ [][NextDrift]_vars

(***************************************************************************)
(* The accumulator and the output sink on their own: addDit, addDah,       *)
(* completeCharacter and flushDecoded called in any order.                 *)
(***************************************************************************)
MaxPath == 7       \* symbols fed between two completions

MaxBuffered == 1   \* a symbol is fed only while fewer characters wait in decodedBuffer

Call(name, s) ==
    /\ op' = name
    /\ Commit(s)
    /\ UNCHANGED << config, lastActivityTime, lineBuf, now, running, lastRecordTime >>

CanFeed == Len(path) < MaxPath /\ Len(decodedBuffer) < MaxBuffered

CallAddDit == CanFeed /\ Call("addDit", addDit(Decoder))

CallAddDah == CanFeed /\ Call("addDah", addDah(Decoder))

CallComplete == Call("completeCharacter", completeCharacter(Decoder))

CallFlush == Call("flushDecoded", flushDecoded(Decoder))

NextAcc == CallAddDit \/ CallAddDah \/ CallComplete \/ CallFlush

SpecAcc == Init /\ [][NextAcc]_vars

(***************************************************************************)
(* Properties.  A step that handed exactly one record to the classifier is *)
(* a "read" step whose recs' holds that record; unprimed variables are the *)
(* state before the record, primed ones the state after it.                *)
(***************************************************************************)
ReadOne == op' = "read" /\ Len(recs') = 1

RecPause == recs'[1].pause

RecLength == recs'[1].length

BothLearned == dotTiming # -1 /\ dashTiming # -1

\* what completeCharacter hands to the output sink in the current state
Resolved ==
    IF elementCount > 0 /\ morseTree[morseTreePos] # NUL
    THEN << CaseConvert(morseTree[morseTreePos]) >>
    ELSE << >>

\* C1: a record whose length is non-zero and below 30 ms yields no symbol and leaves
\* dotTiming, dashTiming, the tree position, elementCount and the output buffer
\* unchanged, whatever its pause is.
C1_NoiseIgnored ==
    [][ (ReadOne /\ RecLength < 30)
        => /\ pressed' = << >>
           /\ appended' = << >>
           /\ printed' = << >>
           /\ UNCHANGED << dotTiming, dashTiming, morseTreePos, elementCount,
                           decodedBuffer, path >> ]_vars

\* a noise record with a word-gap pause has arrived in the middle of a character
C1_Witness ==
    /\ op = "read" /\ Len(recs) = 1
    /\ recs[1].length = 20 /\ recs[1].pause = 2000
    /\ dotTiming = 40 /\ dashTiming = 300 /\ elementCount = 2

\* C2: with dotTiming unlearned, the first pulse of length L >= 30 sets dotTiming = L,
\* leaves dashTiming unlearned and is classified Dot: the accumulator moves to the
\* left child of the root.
C2_ColdStart ==
    [][ (ReadOne /\ RecLength >= 30 /\ dotTiming = -1)
        => /\ dotTiming' = RecLength
           /\ dashTiming' = -1
           /\ pressed' = << "dit" >>
           /\ morseTreePos' = 1
           /\ elementCount' = 1 ]_vars

\* the very first iteration read a 300 ms pulse
C2_Witness ==
    /\ op = "read" /\ now = StartMs + TickMs
    /\ recs = << [pause |-> 2000, length |-> 300] >>
    /\ dotTiming = 300 /\ dashTiming = -1 /\ morseTreePos = 1

\* the stale-dash correction of lines 723-729 applies to a reading
StaleDashApplies(len) ==
    dashTiming > 6 * dotTiming /\ len > 2 * dotTiming /\ len < dashTiming

\* the short-pulse correction of lines 714-721 applies to a reading
ShortPulseApplies(len) == 10 * len < 6 * dotTiming /\ len > 30

WithinTolerance(len, timing) == len - timing <= 50 /\ timing - len <= 50

\* C3 as stated: with both timings learned, every non-noise reading within 50 ms of
\* dotTiming is classified Dot.
C3_AsStated ==
    [][ (ReadOne /\ BothLearned /\ RecLength >= 30 /\ WithinTolerance(RecLength, dotTiming))
        => pressed' = << "dit" >> ]_vars

\* C3 amended: ... is classified Dot, unless the stale-dash correction applies
\* (dashTiming > 6 x dotTiming and 2 x dotTiming < length < dashTiming); then it is
\* classified Dash.
C3_DotWithinTolerance ==
    [][ (ReadOne /\ BothLearned /\ RecLength >= 30 /\ WithinTolerance(RecLength, dotTiming))
        => pressed' = IF StaleDashApplies(RecLength) THEN << "dah" >> ELSE << "dit" >> ]_vars

\* 40, 91 learned; then 85, within 50 of 40, was classified Dot and nudged dotTiming to 51
C3_Witness ==
    /\ op = "read" /\ recs = << [pause |-> 0, length |-> 85] >>
    /\ dotTiming = 51 /\ dashTiming = 91 /\ pressed = << "dit" >>
    /\ path = << "dit", "dah", "dit" >>

\* C4 as stated: with both timings learned, every non-noise reading within 50 ms of
\* dashTiming is classified Dash.
C4_AsStated ==
    [][ (ReadOne /\ BothLearned /\ RecLength >= 30 /\ WithinTolerance(RecLength, dashTiming))
        => pressed' = << "dah" >> ]_vars

\* C4 amended: ... is classified Dash, unless it is also within 50 ms of dotTiming or
\* the short-pulse correction applies (length below 60% of dotTiming and above 30);
\* then it is classified Dot.
C4_DashWithinTolerance ==
    [][ (ReadOne /\ BothLearned /\ RecLength >= 30 /\ WithinTolerance(RecLength, dashTiming))
        => pressed' = IF WithinTolerance(RecLength, dotTiming) \/ ShortPulseApplies(RecLength)
                      THEN << "dit" >> ELSE << "dah" >> ]_vars

\* 40, 300 learned; then 300 again was classified Dash
C4_Witness ==
    /\ op = "read" /\ recs = << [pause |-> 0, length |-> 300] >>
    /\ dotTiming = 40 /\ dashTiming = 300 /\ pressed = << "dah" >>
    /\ path = << "dit", "dah", "dah" >>

\* C6 as stated: any record whose pause exceeds 6 x dotTiming (dotTiming learned)
\* completes the accumulated character and then appends exactly one space, before its
\* own length is classified.
C6_AsStated ==
    [][ (ReadOne /\ dotTiming # -1 /\ RecPause > 6 * dotTiming)
        => /\ appended' = Resolved \o << " " >>
           /\ Len(pressed') = 1
           /\ morseTreePos' \in {1, 2}
           /\ elementCount' = 1 ]_vars

\* C6 amended: any non-noise record (length >= 30) whose pause exceeds 6 x dotTiming ...
C6_WordSpace ==
    [][ (ReadOne /\ dotTiming # -1 /\ RecPause > 6 * dotTiming /\ RecLength >= 30)
        => /\ appended' = Resolved \o << " " >>
           /\ Len(pressed') = 1
           /\ morseTreePos' \in {1, 2}
           /\ elementCount' = 1
           /\ decodedBuffer' = << >> ]_vars

\* dot dash was pending when a pulse with a 2000 ms pause arrived: "A", then the space
C6_Witness ==
    /\ op = "read" /\ Len(recs) = 1
    /\ recs[1].pause = 2000 /\ recs[1].length = 300
    /\ appended = << "A", " " >>
    /\ printed = << "A", " " >>
    /\ elementCount = 1

\* C5: once both timings are learned dashTiming exceeds dotTiming.
C5_DashExceedsDot == BothLearned => dashTiming > dotTiming

\* C7: a character in progress is completed and flushed by the loop's idle iterations
\* alone, once more than 1500 ms have passed since the last bytes.
C7_InactivityCompletes ==
    (elementCount > 0)
        ~> (op = "idle" /\ elementCount = 0 /\ morseTreePos = 0 /\ decodedBuffer = << >>
            /\ now - lastActivityTime > 1500)

\* one dot was pending; the idle iteration 2000 ms after it printed "E"
C7_Witness ==
    /\ op = "idle" /\ elementCount = 0 /\ decodedBuffer = << >>
    /\ appended = << "E" >> /\ printed = << "E" >>
    /\ now - lastActivityTime = 2000 /\ dashTiming = -1

\* C8 as stated: an idle iteration more than 1500 ms after the last record completes
\* the character in progress and flushes, whatever bytes arrived in between.
C8_AsStated ==
    [][ (op' = "idle" /\ elementCount > 0 /\ now' - lastRecordTime > 1500)
        => (elementCount' = 0 /\ decodedBuffer' = << >>) ]_vars

\* C8 amended: inactivity is measured from the last read that returned bytes, whether
\* or not they held a record: an idle iteration more than 1500 ms after it completes
\* the character in progress and flushes.
C8_InactivityFromLastBytes ==
    [][ (op' = "idle" /\ elementCount > 0)
        => IF now' - lastActivityTime > 1500
           THEN elementCount' = 0 /\ decodedBuffer' = << >>
           ELSE UNCHANGED << elementCount, morseTreePos, decodedBuffer >> ]_vars

\* bytes without a record came 500 ms after the last record; the character was
\* completed 2000 ms after those bytes, 2500 ms after the record
C8_Witness ==
    /\ op = "idle" /\ elementCount = 0 /\ appended = << "E" >>
    /\ lastActivityTime = lastRecordTime + 500
    /\ now = lastActivityTime + 2000

\* the tree position the path leads to, by the rule dot = 2i + 1, dash = 2i + 2
RECURSIVE PositionOf(_)
PositionOf(symbols) ==
    IF symbols = << >> THEN 0
    ELSE LET parent == PositionOf(SubSeq(symbols, 1, Len(symbols) - 1))
         IN  IF symbols[Len(symbols)] = "dit" THEN 2 * parent + 1 ELSE 2 * parent + 2

PathToDefined ==
    /\ Len(path) \in 1 .. 6
    /\ morseTree[PositionOf(path)] # NUL

\* C9 as stated: feeding the path to a defined position p into an empty accumulator
\* and completing emits exactly morseTree[p] and leaves position and count at 0.
C9_AsStated ==
    [][ (op' = "completeCharacter" /\ PathToDefined)
        => /\ appended' = << morseTree[PositionOf(path)] >>
           /\ morseTreePos' = 0
           /\ elementCount' = 0 ]_vars

\* C9 amended: ... emits exactly morseTree[p], as its lowercase letter when
\* lowercase mode is on and morseTree[p] is a letter ...
C9_RoundTrip ==
    [][ (op' = "completeCharacter" /\ PathToDefined)
        => /\ appended' = << CaseConvert(morseTree[PositionOf(path)]) >>
           /\ morseTreePos' = 0
           /\ elementCount' = 0 ]_vars

\* dash dot dash dot dash dash (position 106) was completed to "!"
C9_Witness ==
    /\ op = "completeCharacter" /\ appended = << "!" >>
    /\ morseTreePos = 0 /\ elementCount = 0

\* C10: a completeCharacter right after a completeCharacter emits nothing and changes
\* neither the buffer, the position nor the count; no call emits more than one character.
C10_CompleteIdempotent ==
    [][ /\ op' = "completeCharacter" => Len(appended') <= 1
        /\ (op = "completeCharacter" /\ op' = "completeCharacter")
           => /\ appended' = << >>
              /\ printed' = << >>
              /\ UNCHANGED << decodedBuffer, morseTreePos, elementCount >> ]_vars

\* the second of two calls: the first one's character still waits in the buffer
C10_Witness ==
    /\ op = "completeCharacter" /\ appended = << >>
    /\ decodedBuffer = << "K" >> /\ pendingWordGap = 1
    /\ morseTreePos = 0 /\ elementCount = 0

\* C11: when the read reports a disconnect while a sequence is in progress, the
\* sequence is completed (its character, if defined, reaches the output) and the
\* output is flushed before the loop shuts down.
C11_DisconnectCompletes ==
    [][ (op' = "disconnect" /\ elementCount > 0)
        => /\ appended' = Resolved
           /\ elementCount' = 0
           /\ morseTreePos' = 0
           /\ decodedBuffer' = << >> ]_vars

(***************************************************************************)
(* Lines that hold several records, malformed ones among them.  The text   *)
(* of a line arrives in one read and its line end in the next one, so the  *)
(* line handed to handleLine is what lineBuf held before the second read.  *)
(***************************************************************************)
MaxParseTicks == 4

ParseHorizon == StartMs + MaxParseTicks * TickMs

\* "<marker>,<pause>,<length>"
RecordText(marker, r) ==
    marker \o << "," >> \o Decimal(r.pause) \o << "," >> \o Decimal(r.length)

GoodRecords == {[pause |-> 0, length |-> 40], [pause |-> 240, length |-> 300]}

\* "S", and "sS": two marker letters in front of one record
Markers == { << "S" >>, << "s", "S" >> }

\* markers whose length field is not a number, is missing or is zero:
\* "Sxyz,12,abc"  "S,12,"  "S,12"  "S,5,0"
MalformedTexts ==
    { << "S", "x", "y", "z", ",", "1", "2", ",", "a", "b", "c" >>,
      << "S", ",", "1", "2", "," >>,
      << "S", ",", "1", "2" >>,
      << "S", ",", "5", ",", "0" >> }

\* letters between the pause digits and the second comma: "S,12abc,345"
LooseTexts == { << "S", ",", "1", "2", "a", "b", "c", ",", "3", "4", "5" >> }

\* text that holds no record: "more", without a marker, and "S" with its comma 21
\* characters further on, "Sxxxxxxxxxxxxxxxxxxxx,5,40"
JunkTexts ==
    { << "m", "o", "r", "e" >>,
      << "S" >> \o [i \in 1 .. 20 |-> "x"] \o << ",", "5", ",", "4", "0" >> }

\* a piece of a line: its text and the records it holds
Segments ==
    {[text |-> RecordText(m, r), recs |-> << r >>, bad |-> FALSE, loose |-> FALSE] :
        m \in Markers, r \in GoodRecords}
    \cup {[text |-> t, recs |-> << >>, bad |-> TRUE, loose |-> FALSE] : t \in MalformedTexts}
    \cup {[text |-> t, recs |-> << >>, bad |-> FALSE, loose |-> FALSE] : t \in JunkTexts}
    \cup {[text |-> t, recs |-> << >>, bad |-> FALSE, loose |-> TRUE] : t \in LooseTexts}

GoodSegments == {g \in Segments : g.recs # << >>}

\* lines of one or two pieces of any kind, and lines of three records
SegLists ==
    {<< a >> : a \in Segments}
    \cup {<< a, b >> : a \in Segments, b \in Segments}
    \cup {<< a, b, c >> : a \in GoodSegments, b \in GoodSegments, c \in GoodSegments}

\* the pieces separated by one blank
RECURSIVE TextOf(_)
TextOf(segs) ==
    IF Len(segs) = 1 THEN segs[1].text
    ELSE segs[1].text \o << " " >> \o TextOf(Tail(segs))

RECURSIVE RecordsOf(_)
RecordsOf(segs) ==
    IF segs = << >> THEN << >> ELSE segs[1].recs \o RecordsOf(Tail(segs))

LineTexts == {TextOf(segs) : segs \in SegLists}

ReadLineText == \E text \in LineTexts : lineBuf = << >> /\ ReadBytes(text)

ReadLineEnd == lineBuf # << >> /\ ReadBytes(<< "\n" >>)

NextParse == now + TickMs <= ParseHorizon /\ (ReadLineText \/ ReadLineEnd)

SpecParse == Init /\ [][NextParse]_vars

\* the step that hands the line in lineBuf to handleLine
HandlesLine(text) == op' = "read" /\ lineBuf = text /\ lineBuf' = << >>

\* C12: a line with malformed markers is handled as if they were not there: the
\* classifier gets the well-formed records of the line, each once and in order, and
\* a line without a well-formed record changes no classifier, accumulator or output
\* state.
C12_MalformedRejected ==
    [][ \A segs \in SegLists :
          (/\ HandlesLine(TextOf(segs))
           /\ \E i \in 1 .. Len(segs) : segs[i].bad
           /\ \A i \in 1 .. Len(segs) : ~segs[i].loose)
          => /\ recs' = RecordsOf(segs)
             /\ RecordsOf(segs) = << >>
                => /\ pressed' = << >> /\ appended' = << >> /\ printed' = << >>
                   /\ UNCHANGED << dotTiming, dashTiming, morseTreePos, elementCount,
                                   decodedBuffer, pendingWordGap, path >> ]_vars

\* the classifier applied to the records one after the other
RECURSIVE ClassifyEach(_, _)
ClassifyEach(s, records) ==
    IF records = << >> THEN s
    ELSE ClassifyEach(Classify([s EXCEPT !.recs = Append(@, records[1])],
                               records[1].pause, records[1].length),
                      Tail(records))

\* C13: the records of a line of well-formed records go to the classifier once each
\* and from left to right: the line leaves the state that classifying its records
\* one after the other leaves.
C13_EachRecordOnce ==
    [][ \A segs \in SegLists :
          (HandlesLine(TextOf(segs)) /\ \A i \in 1 .. Len(segs) : ~segs[i].bad /\ ~segs[i].loose)
          => /\ recs' = RecordsOf(segs)
             /\ Commit(ClassifyEach(Decoder, RecordsOf(segs))) ]_vars

\* the line "S,0,40 sS,240,300 S,0,40" was handled as dot, dash, dot: "E" completed
\* at the pause of 240 ms, and the dash and the last dot on the way to "N"
C13_Witness ==
    /\ op = "read"
    /\ recs = << [pause |-> 0, length |-> 40], [pause |-> 240, length |-> 300],
                 [pause |-> 0, length |-> 40] >>
    /\ pressed = << "dit", "dah", "dit" >>
    /\ appended = << "E" >>
    /\ path = << "dah", "dit" >>

HasSpace(chars) == \E i \in 1 .. Len(chars) : chars[i] = " "

FirstSixOf(symbols) == SubSeq(symbols, 1, IF Len(symbols) < 6 THEN Len(symbols) ELSE 6)

\* the first six symbols of the path
FirstSix == FirstSixOf(path)

\* C15: the tree position is always in 0 .. 126; at a position of 63 or more addDit
\* and addDah drop the symbol and leave position and elementCount as they are, so a
\* sequence of more than six symbols is completed as its first six symbols.
C15_PositionInBounds ==
    [][ /\ morseTreePos' \in 0 .. 126
        /\ (op' \in {"addDit", "addDah"} /\ morseTreePos >= 63)
           => UNCHANGED << morseTreePos, elementCount >>
        /\ (op' = "completeCharacter" /\ Len(path) > 6)
           => /\ morseTreePos = PositionOf(FirstSix)
              /\ appended' = IF morseTree[PositionOf(FirstSix)] # NUL
                             THEN << CaseConvert(morseTree[PositionOf(FirstSix)]) >>
                             ELSE << >> ]_vars

\* a seventh symbol, a dot, was fed after dash dot dash dot dash dash: the position
\* is still 106 and elementCount still 6
C15_Witness ==
    /\ op = "addDit" /\ Len(path) = 7 /\ path[7] = "dit"
    /\ morseTreePos = 106 /\ elementCount = 6

(***************************************************************************)
(* The output sink on its own: addDecodedChar called with a letter, a      *)
(* space or a line break, and flushDecoded, in any order.                  *)
(***************************************************************************)
SinkChars == {"E", " ", "\n"}

CallAddDecodedChar == \E c \in SinkChars : Call("addDecodedChar", addDecodedChar(Decoder, c))

NextSink == CallAddDecodedChar \/ CallFlush

SpecSink == Init /\ [][NextSink]_vars

HasLineBreak(chars) == \E i \in 1 .. Len(chars) : chars[i] = "\n"

\* C16: an append flushes and clears the buffer when the buffer reaches 64 characters
\* or the character is a space or a line break, and only then; after every append
\* the buffer holds fewer than 64 characters, no space and no line break.
C16_FlushPolicy ==
    [][ op' = "addDecodedChar"
        => LET c == appended'[1]
           IN  /\ Len(decodedBuffer') < 64
               /\ ~HasSpace(decodedBuffer') /\ ~HasLineBreak(decodedBuffer')
               /\ IF Len(decodedBuffer) + 1 >= 64 \/ c = " " \/ c = "\n"
                  THEN /\ decodedBuffer' = << >>
                       /\ printed' = IF quietMode THEN << >> ELSE Append(decodedBuffer, c)
                  ELSE /\ decodedBuffer' = Append(decodedBuffer, c)
                       /\ printed' = << >> ]_vars

\* the 64th letter in a row: the append printed all 64 and left the buffer empty
C16_Witness ==
    /\ op = "addDecodedChar" /\ appended = << "E" >>
    /\ Len(printed) = 64 /\ printed[64] = "E" /\ decodedBuffer = << >>

\* the six-element codes named for the tree: ..--..  .-.-.-  .----.  -....-  -.-.-.
\* -.-.--  --..--  ---...
Level6Named ==
    (75 :> "?") @@ (84 :> ".") @@ (93 :> "'") @@ (96 :> "-") @@ (105 :> ";") @@
    (106 :> "!") @@ (114 :> ",") @@ (119 :> ":")

\* C17: a sequence of six symbols is completed to a character exactly when it leads
\* to one of the eight named positions, and then to the character named for it; every
\* other sequence of six symbols is completed to nothing.
C17_Level6Exact ==
    [][ (op' = "completeCharacter" /\ Len(path) = 6)
        => appended' = IF PositionOf(path) \in DOMAIN Level6Named
                       THEN << Level6Named[PositionOf(path)] >>
                       ELSE << >> ]_vars

(***************************************************************************)
(* Keying with two pulse lengths, without a pause or with a pause of 240   *)
(* ms, long enough for sequences of more than six symbols.                 *)
(***************************************************************************)
MaxKeyTicks == 7

KeyHorizon == StartMs + MaxKeyTicks * TickMs

KeyPauses == {0, 240}

KeyLengths == {40, 300}

KeyChunks == {RecordLine(p, l) : p \in KeyPauses, l \in KeyLengths}

NextKeying == \E chunk \in KeyChunks : now + TickMs <= KeyHorizon /\ ReadBytes(chunk)

SpecKeying == Init /\ [][NextKeying]_vars

\* C18: with dotTiming learned, a non-noise record whose pause is above 2.5 and at
\* most 6 times dotTiming completes the sequence in progress first (its character is
\* appended, no space) and its symbol is the first of a new sequence; with a pause
\* of at most 2.5 times dotTiming nothing is completed and the symbol is fed to the
\* sequence in progress.
C18_BoundaryOrdering ==
    [][ (ReadOne /\ RecLength >= 30 /\ dotTiming # -1)
        => IF 2 * RecPause > 5 * dotTiming /\ RecPause <= 6 * dotTiming
           THEN /\ appended' = Resolved
                /\ Len(pressed') = 1
                /\ path' = pressed'
                /\ elementCount' = 1
                /\ morseTreePos' = PositionOf(pressed')
           ELSE IF 2 * RecPause <= 5 * dotTiming
           THEN /\ appended' = << >>
                /\ Len(pressed') = 1
                /\ path' = path \o pressed'
                /\ elementCount' = Len(FirstSixOf(path'))
                /\ morseTreePos' = PositionOf(FirstSixOf(path'))
           ELSE TRUE ]_vars

\* dash dot was in progress; a dot after a pause of 240 ms (dotTiming 40) completed
\* it to "N" behind the waiting "E" and is the first symbol of the next sequence
C18_Witness ==
    /\ op = "read" /\ recs = << [pause |-> 240, length |-> 40] >>
    /\ appended = << "N" >> /\ decodedBuffer = << "E", "N" >>
    /\ path = << "dit" >> /\ morseTreePos = 1 /\ elementCount = 1

(***************************************************************************)
(* Pulses of many lengths sent without pauses: readings below and at the   *)
(* noise floor, below 60 % of dotTiming, and halfway between the timings.  *)
(***************************************************************************)
MaxPulseTicks == 4

PulseHorizon == StartMs + MaxPulseTicks * TickMs

PulseLengths == {20, 30, 40, 50, 85, 100, 150, 200, 300}

PulseChunks == {RecordLine(0, l) : l \in PulseLengths}

NextPulses == \E chunk \in PulseChunks : now + TickMs <= PulseHorizon /\ ReadBytes(chunk)

SpecPulses == Init /\ [][NextPulses]_vars

\* C19 as stated: with both timings learned, every reading of 30 ms or more that is
\* below 60 % of dotTiming makes the old dotTiming the dashTiming, becomes the
\* dotTiming and is classified Dot.
C19_AsStated ==
    [][ (ReadOne /\ BothLearned /\ RecLength >= 30 /\ 10 * RecLength < 6 * dotTiming)
        => /\ dashTiming' = dotTiming
           /\ dotTiming' = RecLength
           /\ pressed' = << "dit" >> ]_vars

\* C19 amended: ... every reading above 30 ms that is below 60 % of dotTiming ...
C19_ShortPulse ==
    [][ (ReadOne /\ BothLearned /\ RecLength > 30 /\ 10 * RecLength < 6 * dotTiming)
        => /\ dashTiming' = dotTiming
           /\ dotTiming' = RecLength
           /\ pressed' = << "dit" >> ]_vars

\* timings 85 and 300, then a pulse of 50 ms: dotTiming 50, dashTiming 85, a dot
C19_Witness ==
    /\ op = "read" /\ recs = << [pause |-> 0, length |-> 50] >>
    /\ dotTiming = 50 /\ dashTiming = 85
    /\ pressed = << "dit" >> /\ path = << "dit", "dah", "dit" >>

\* no timing is within 50 ms of the reading and no correction applies to it
FallbackApplies(len) ==
    /\ BothLearned /\ len >= 30
    /\ ~ShortPulseApplies(len) /\ ~StaleDashApplies(len)
    /\ ~WithinTolerance(len, dotTiming) /\ ~WithinTolerance(len, dashTiming)

Distance(a, b) == IF a < b THEN b - a ELSE a - b

\* C20 as stated: such a reading is classified by the nearer timing, and Dot when
\* the distances are equal.
C20_AsStated ==
    [][ (ReadOne /\ FallbackApplies(RecLength))
        => pressed' = IF Distance(RecLength, dotTiming) <= Distance(RecLength, dashTiming)
                      THEN << "dit" >> ELSE << "dah" >> ]_vars

\* C20 amended: ... and Dash when the distances are equal.
C20_NearestTieDash ==
    [][ (ReadOne /\ FallbackApplies(RecLength))
        => pressed' = IF Distance(RecLength, dotTiming) < Distance(RecLength, dashTiming)
                      THEN << "dit" >> ELSE << "dah" >> ]_vars

\* timings 100 and 300, then a pulse of 200 ms, 100 ms from both: a dash
C20_Witness ==
    /\ op = "read" /\ recs = << [pause |-> 0, length |-> 200] >>
    /\ dotTiming = 100 /\ dashTiming = 300
    /\ pressed = << "dah" >> /\ path = << "dit", "dah", "dah" >>

\* C21: with dotTiming learned and dashTiming not, a non-noise reading within 50 ms
\* of dotTiming is a dot and changes no timing; any other one makes the larger of
\* dotTiming and the reading the dashTiming and the smaller the dotTiming, and is a
\* dash when it is the larger and a dot when it is the smaller; the timings are then
\* more than 50 ms apart.
C21_SecondValue ==
    [][ (ReadOne /\ RecLength >= 30 /\ dotTiming # -1 /\ dashTiming = -1)
        => IF WithinTolerance(RecLength, dotTiming)
           THEN pressed' = << "dit" >> /\ UNCHANGED << dotTiming, dashTiming >>
           ELSE /\ dashTiming' = IF RecLength > dotTiming THEN RecLength ELSE dotTiming
                /\ dotTiming' = IF RecLength > dotTiming THEN dotTiming ELSE RecLength
                /\ pressed' = IF RecLength > dotTiming THEN << "dah" >> ELSE << "dit" >>
                /\ dashTiming' - dotTiming' > 50 ]_vars

\* the first pulse was 300 ms, the second 40 ms: the timings swap and the second is a dot
C21_Witness ==
    /\ op = "read" /\ recs = << [pause |-> 0, length |-> 40] >>
    /\ dotTiming = 40 /\ dashTiming = 300
    /\ pressed = << "dit" >> /\ path = << "dit", "dit" >>

\* a reading that reaches the classification of lines 731-750
SteadyApplies(len) ==
    BothLearned /\ len >= 30 /\ ~ShortPulseApplies(len) /\ ~StaleDashApplies(len)

Between(x, a, b) == (a <= x /\ x <= b) \/ (b <= x /\ x <= a)

\* the timings after a steady-state reading, the moved timing at most most ms from
\* its old value
SteadyUpdate(len, most) ==
    IF WithinTolerance(len, dotTiming)
    THEN /\ pressed' = << "dit" >>
         /\ dotTiming' = (3 * dotTiming + len) \div 4
         /\ dashTiming' = dashTiming
         /\ Distance(dotTiming', dotTiming) <= most
         /\ Between(dotTiming', dotTiming, len)
    ELSE IF WithinTolerance(len, dashTiming)
    THEN /\ pressed' = << "dah" >>
         /\ dashTiming' = (3 * dashTiming + len) \div 4
         /\ dotTiming' = dotTiming
         /\ Distance(dashTiming', dashTiming) <= most
         /\ Between(dashTiming', dashTiming, len)
    ELSE UNCHANGED << dotTiming, dashTiming >>

\* C22 as stated: a reading within tolerance of a timing moves that timing to
\* floor((3 * timing + reading) / 4) and leaves the other one, a fallback reading
\* changes neither; the moved timing ends between its old value and the reading and
\* at most 12 ms from its old value.
C22_AsStated == [][ (ReadOne /\ SteadyApplies(RecLength)) => SteadyUpdate(RecLength, 12) ]_vars

\* C22 amended: ... at most 13 ms from its old value.
C22_SteadyUpdate == [][ (ReadOne /\ SteadyApplies(RecLength)) => SteadyUpdate(RecLength, 13) ]_vars

\* timings 200 and 300, then a pulse of 150 ms: a dot, and dotTiming is
\* floor(750 / 4) = 187, 13 ms below 200
C22_Witness ==
    /\ op = "read" /\ recs = << [pause |-> 0, length |-> 150] >>
    /\ dotTiming = 187 /\ dashTiming = 300
    /\ pressed = << "dit" >> /\ path = << "dit", "dah", "dit" >>

\* C23: the classifier gets a record only from text of the form marker, comma,
\* digits, comma, digits: every record a line yields is one of the records written
\* on it in that form, and "S,12abc,345" yields none.
C23_RecordGrammar ==
    [][ \A segs \in SegLists :
          HandlesLine(TextOf(segs))
          => \A i \in 1 .. Len(recs') :
                \E k \in 1 .. Len(RecordsOf(segs)) : recs'[i] = RecordsOf(segs)[k] ]_vars

(***************************************************************************)
(* Bytes that arrive after a long silence: a dot or bytes without a record *)
(* in any iteration, nothing in the others.                                *)
(***************************************************************************)
MaxLateTicks == 5

LateHorizon == StartMs + MaxLateTicks * TickMs

LateChunks == {RecordLine(0, 40), << "x", "y" >>}

NextLate ==
    \/ \E chunk \in LateChunks : now + TickMs <= LateHorizon /\ ReadBytes(chunk)
    \/ now + TickMs <= LateHorizon /\ ReadNothing

SpecLate == Init /\ [][NextLate]_vars

\* a sequence is in progress and the iteration ends more than 1500 ms after the
\* last bytes before it
InactivityDue == elementCount > 0 /\ now' - lastActivityTime > 1500

\* C24 as stated: every iteration evaluates the inactivity check, whether or not it
\* read bytes: when the check is due the character in progress is completed.
C24_AsStated ==
    [][ (op' \in {"read", "idle"} /\ InactivityDue /\ Resolved # << >>)
        => (appended' # << >> /\ appended'[1] = Resolved[1]) ]_vars

\* C24 amended: the check is evaluated in the iterations that read nothing; an
\* iteration that read bytes restarts the inactivity clock without the check, so
\* bytes without a record leave the sequence in progress as it is even when the
\* check was due.
C24_CheckedWhenIdle ==
    [][ /\ (op' = "idle" /\ InactivityDue)
           => (appended' = Resolved /\ elementCount' = 0 /\ decodedBuffer' = << >>)
        /\ (op' = "read" /\ InactivityDue)
           => /\ lastActivityTime' = now'
              /\ recs' = << >>
                 => (appended' = << >> /\ UNCHANGED << elementCount, morseTreePos,
                                                        decodedBuffer >>) ]_vars

\* a dot, 1500 ms of silence, then bytes without a record 2000 ms after the dot: the
\* dot is still in progress and the clock starts again
C24_Witness ==
    /\ op = "read" /\ recs = << >> /\ appended = << >>
    /\ elementCount = 1 /\ morseTreePos = 1
    /\ lastActivityTime = now /\ now - lastRecordTime = 2000

(***************************************************************************)
(* A device that sends no line end for a long time: reads of 255 bytes     *)
(* without a line end (the most one read returns), and reads of 16 bytes   *)
(* that end with the line of a dot.                                        *)
(***************************************************************************)
MaxFillTicks == 18

FillHorizon == StartMs + MaxFillTicks * TickMs

\* n bytes that are no marker, no comma and no line end
Filler(n) == [i \in 1 .. n |-> "x"]

FillChunks == {Filler(255), Filler(9) \o RecordLine(0, 40)}

NextFill == \E chunk \in FillChunks : now + TickMs <= FillHorizon /\ ReadBytes(chunk)

SpecFill == Init /\ [][NextFill]_vars

\* C25: lineBuf always holds fewer than 4096 bytes; a read that would bring it to
\* 4096 bytes or more empties it, no line of the old content or of the read is
\* handled, and classifier, accumulator and output stay as they are.
C25_OverflowDiscards ==
    [][ /\ Len(lineBuf') < 4096
        /\ \A chunk \in FillChunks :
              (ReadBytes(chunk) /\ ~debugMode /\ Len(lineBuf) + Len(chunk) >= 4096)
              => /\ lineBuf' = << >>
                 /\ recs' = << >> /\ pressed' = << >> /\ appended' = << >> /\ printed' = << >>
                 /\ UNCHANGED << dotTiming, dashTiming, morseTreePos, elementCount,
                                 decodedBuffer, pendingWordGap, path >> ]_vars

\* a dot, sixteen reads of 255 bytes, and a read of 16 bytes with the line of a
\* second dot, which would fill the buffer to 4096 bytes: the buffer is empty, no
\* line was handled and the first dot is still the only symbol
C25_Witness ==
    /\ op = "read" /\ lineBuf = << >> /\ recs = << >>
    /\ lastRecordTime = StartMs + TickMs /\ now = lastRecordTime + 17 * TickMs
    /\ elementCount = 1 /\ morseTreePos = 1

\* the positions of level k of the tree: 2^k - 1 .. 2^(k+1) - 2
Level(k) == (2 ^ k - 1) .. (2 ^ (k + 1) - 2)

\* C26: elementCount is the depth of the tree position: the position is in level k
\* exactly when elementCount is k; elementCount is 0 exactly at the root and never
\* above 6.
C26_CountIsDepth ==
    /\ \A k \in 0 .. 6 : (morseTreePos \in Level(k)) <=> (elementCount = k)
    /\ (elementCount = 0) <=> (morseTreePos = 0)
    /\ elementCount \in 0 .. 6

\* seven dashes were fed: the position is 126, the last one of level 6, and the
\* count is 6
C26_Witness ==
    /\ op = "addDah" /\ Len(path) = 7
    /\ morseTreePos = 126 /\ elementCount = 6

\* C27: a learned dotTiming stays learned, dashTiming is learned only when dotTiming
\* is, and a learned timing is at least 30 ms, so 2.5 and 6 times dotTiming are
\* positive.
C27_TimingsStayLearned ==
    [][ /\ dotTiming # -1 => dotTiming' # -1
        /\ dashTiming' # -1 => dotTiming' # -1
        /\ dotTiming' # -1 => (dotTiming' >= 30 /\ 5 * dotTiming' > 0 /\ 6 * dotTiming' > 0)
        /\ dashTiming' # -1 => dashTiming' >= 30 ]_vars

\* pulses of 30, 85 and 30 ms with a noise pulse of 20 ms after them: dotTiming
\* stays at the noise floor
C27_Witness ==
    /\ op = "read" /\ recs = << [pause |-> 0, length |-> 20] >>
    /\ dotTiming = 30 /\ dashTiming = 85
    /\ path = << "dit", "dah", "dit" >>

\* C28: after every iteration of the loop, characters wait in decodedBuffer only
\* while a sequence is in progress.
C28_NothingStranded == decodedBuffer # << >> => elementCount > 0

\* "E" waits in the buffer behind a dash in progress, 1000 ms after the last bytes
C28_Witness ==
    /\ op = "idle" /\ decodedBuffer = << "E" >>
    /\ elementCount = 1 /\ morseTreePos = 2
    /\ now - lastActivityTime = 1000

\* what an operation prints, followed by what it leaves in the buffer, is what the
\* buffer held before it followed by what it appended; if every operation keeps
\* this, all text printed so far followed by the buffer is all text appended so far
Conserved == printed' \o decodedBuffer' = decodedBuffer \o appended'

\* C29 as stated: flushes lose, duplicate and reorder nothing.
C29_AsStated == [][Conserved]_vars

\* C29 amended: ... unless quiet mode is on: then a flush prints nothing and empties
\* the buffer.
C29_Conservation ==
    [][ IF quietMode
        THEN /\ printed' = << >>
             /\ decodedBuffer' = << >> \/ decodedBuffer' = decodedBuffer \o appended'
        ELSE Conserved ]_vars

\* nine letters waited in the buffer when a space was appended: all ten characters
\* were printed in order
C29_Witness ==
    /\ op = "addDecodedChar" /\ appended = << " " >>
    /\ printed = << "E", "E", "E", "E", "E", "E", "E", "E", "E", " " >>
    /\ decodedBuffer = << >>

StrictlyIncreasing(seq) == \A i \in 1 .. Len(seq) - 1 : seq[i] < seq[i + 1]

\* C30: the scan of a line ends: every iteration starts with the cursor further to
\* the right than the one before, so the loop ends within Len(line) + 1 iterations,
\* and the state it leaves is the state the program has after the line.
C30_ScanEnds ==
    [][ (op' = "read" /\ lineBuf # << >> /\ lineBuf' = << >>)
        => LET run == ScanRun(Decoder, lineBuf, 1, Len(lineBuf) + 1)
           IN  /\ run.ended
               /\ StrictlyIncreasing(run.cursors)
               /\ Commit(run.st) ]_vars

\* the line "S,12 S,240,300": the first iteration hands (12, 240) to the classifier
\* and moves the cursor to the last digit of 240, the second one finds no marker
C30_Witness ==
    /\ op = "read" /\ recs = << [pause |-> 12, length |-> 240] >>
    /\ dotTiming = 240 /\ pressed = << "dit" >> /\ lineBuf = << >>

====
